---- MODULE Spec2Model ----
(***************************************************************************)
(* AutoLabel (deluge-plugin-autolabel): the rule store and the rule        *)
(* evaluator of autolabel/core.py, with the Label plugin, the torrent      *)
(* manager and the configuration file as the environment, and the rule     *)
(* list of the preferences page of autolabel/gtkui.py as its client.       *)
(*                                                                         *)
(* Strings are sequences of one-character strings, so that str.lower() and *)
(* re.search() are computed character by character.  A Python None is the  *)
(* empty set and a supplied optional argument v is {v}.                    *)
(***************************************************************************)
EXTENDS Integers, Sequences, FiniteSets, TLC

VARIABLES config, saved, label_enabled, labels, torrent_labels, torrents, last,
          rules_liststore, requests, responses

vars == <<config, saved, label_enabled, labels, torrent_labels, torrents, last,
          rules_liststore, requests, responses>>

\* the state of the GTK preferences page and of its calls to the core
ui_vars == <<rules_liststore, requests, responses>>

\* the state of the core and of its collaborators
core_vars == <<config, saved, label_enabled, labels, torrent_labels, torrents, last>>

(***************************************************************************)
(* Bounds                                                                  *)
(***************************************************************************)
MaxRules == 2

\* the calls the GTK client may have under way at one time
MaxInFlight == 2

\* the rules the preferences page is opened on
MaxRows == 3

(***************************************************************************)
(* Strings                                                                 *)
(***************************************************************************)
EMPTY == <<>>

\* str.lower() on one character of the modelled alphabet
LowerChar(c) == CASE c = "A" -> "a" [] c = "B" -> "b" [] OTHER -> c

\* the case folding of re.IGNORECASE
IgnoreCase(s) == [i \in 1..Len(s) |-> LowerChar(s[i])]

\* str.lower()
lower(s) == [i \in 1..Len(s) |-> LowerChar(s[i])]

(***************************************************************************)
(* Regular expressions: the fragment of Python's re over letters, the      *)
(* alternation bar and an opening bracket. No closing bracket is in the    *)
(* alphabet, so a pattern with "[" is an unterminated character set and    *)
(* re.compile raises re.error; every other pattern compiles.               *)
(***************************************************************************)
\* a compile that accepts everything
re_compile_any(pattern) == TRUE

\* re.compile(pattern) does not raise
re_compile(pattern) == \A i \in 1..Len(pattern) : pattern[i] # "["

\* the alternatives of a pattern, split at the top-level bars
RECURSIVE Alternatives(_)
Alternatives(p) ==
    IF \E i \in 1..Len(p) : p[i] = "|"
    THEN LET k == CHOOSE i \in 1..Len(p) : p[i] = "|" /\ \A j \in 1..(i - 1) : p[j] # "|"
         IN  {SubSeq(p, 1, k - 1)} \cup Alternatives(SubSeq(p, k + 1, Len(p)))
    ELSE {p}

\* sub occurs in s as a contiguous substring
Found(sub, s) ==
    \E k \in 0..(Len(s) - Len(sub)) : SubSeq(s, k + 1, k + Len(sub)) = sub

\* bool(re.search(pattern, string, flags)) for a pattern that compiles
re_search(pattern, string, ignorecase) ==
    \E alt \in Alternatives(pattern) :
        IF ignorecase THEN Found(IgnoreCase(alt), IgnoreCase(string)) ELSE Found(alt, string)

\* Core._match_pattern: re.error is caught and gives False
_match_pattern(torrent_name, pattern, case_insensitive) ==
    IF re_compile(pattern) THEN re_search(pattern, torrent_name, case_insensitive) ELSE FALSE

(***************************************************************************)
(* Configuration                                                           *)
(***************************************************************************)
DEFAULT_PREFS ==
    [rules |-> <<>>, apply_on_add |-> TRUE, skip_if_labeled |-> TRUE, case_insensitive |-> TRUE]

\* inputs: the labels and patterns a caller supplies
RuleLabels == {<<"A">>, <<"b">>}
GoodPatterns == {<<"a">>, <<"a", "|", "b">>}
BadPatterns == {<<"[">>}
Patterns == GoodPatterns \cup BadPatterns

None == {}
Some(v) == {v}
Opt(S) == {None} \cup {Some(v) : v \in S}
TheValue(o) == CHOOSE v \in o : TRUE

\* Python's list index i (from 0) of a sequence
PyIndex(seq, i) == seq[i + 1]

\* a pop that always takes the last element
PopLast(seq, index) == SubSeq(seq, 1, Len(seq) - 1)

\* list.pop(index) for 0 <= index < len(list): the list without that element
Pop(seq, index) == SubSeq(seq, 1, index) \o SubSeq(seq, index + 2, Len(seq))

\* an insert at the head of the list
list_prepend(seq, item) == <<item>> \o seq

\* list.append(item)
list_append(seq, item) == Append(seq, item)

\* the arguments update_rule may be given
UpdateLabels == {None, Some(<<"b">>)}
UpdateEnabled == {None, Some(FALSE)}

\* the record of an operation: its arguments, its result, the collaborator
\* calls it made, in order, the rules it handed to _match_pattern, the label
\* store as the operation found it, and whether it follows directly on an
\* apply_rules_to_torrent of the same torrent that returned True
NoOp ==
    [op |-> "none", tid |-> "", index |-> 0, label |-> None, pattern |-> None,
     enabled |-> None, from_state |-> FALSE, keys |-> {},
     ret |-> FALSE, error |-> "", rule_index |-> 0, rule |-> None,
     calls |-> <<>>, tried |-> <<>>, pre_label |-> <<>>, pre_labels |-> {},
     follows |-> FALSE, labeled_count |-> 0, batch |-> <<>>]

\* a save that writes nothing: the persisted record stays as it was
save_skipped(cfg) == saved

\* config.save(): the persisted record becomes the in-memory one
save(cfg) == cfg

(***************************************************************************)
(* Rule store                                                              *)
(***************************************************************************)
\* Core.add_rule
add_rule(label, pattern, enabled) ==
    /\ Len(config.rules) < MaxRules
    /\ IF ~re_compile(pattern)
       THEN /\ last' = [NoOp EXCEPT !.op = "add_rule", !.label = Some(label),
                            !.pattern = Some(pattern), !.enabled = Some(enabled),
                            !.ret = FALSE, !.error = "re.error"]
            /\ UNCHANGED <<config, saved>>
       ELSE LET rule == [label |-> label, pattern |-> pattern, enabled |-> enabled]
                cfg == [config EXCEPT !.rules = list_append(@, rule)]
            IN  /\ config' = cfg
                /\ saved' = save(cfg)
                /\ last' = [NoOp EXCEPT !.op = "add_rule", !.label = Some(label),
                                !.pattern = Some(pattern), !.enabled = Some(enabled),
                                !.ret = TRUE, !.rule_index = Len(cfg.rules) - 1]
    /\ UNCHANGED <<label_enabled, labels, torrent_labels, torrents>>

\* Core.remove_rule
remove_rule(index) ==
    /\ IF 0 <= index /\ index < Len(config.rules)
       THEN LET removed == PyIndex(config.rules, index)
                cfg == [config EXCEPT !.rules = Pop(@, index)]
            IN  /\ config' = cfg
                /\ saved' = save(cfg)
                /\ last' = [NoOp EXCEPT !.op = "remove_rule", !.index = index,
                                !.ret = TRUE, !.rule = Some(removed)]
       ELSE /\ last' = [NoOp EXCEPT !.op = "remove_rule", !.index = index,
                            !.ret = FALSE, !.error = "Invalid index"]
            /\ UNCHANGED <<config, saved>>
    /\ UNCHANGED <<label_enabled, labels, torrent_labels, torrents>>

\* the assignments guarded by truthiness (`if enabled:`) instead of by
\* `is not None`
UpdatedRuleTruthy(rule, label, pattern, enabled) ==
    [label |-> IF label # None /\ TheValue(label) # EMPTY THEN TheValue(label) ELSE rule.label,
     pattern |-> IF pattern # None /\ TheValue(pattern) # EMPTY THEN TheValue(pattern) ELSE rule.pattern,
     enabled |-> IF enabled # None /\ TheValue(enabled) THEN TheValue(enabled) ELSE rule.enabled]

\* the rule after the assignments of update_rule, made in the code's order
UpdatedRule(rule, label, pattern, enabled) ==
    [label |-> IF label # None THEN TheValue(label) ELSE rule.label,
     pattern |-> IF pattern # None THEN TheValue(pattern) ELSE rule.pattern,
     enabled |-> IF enabled # None THEN TheValue(enabled) ELSE rule.enabled]

\* Core.update_rule
update_rule(index, label, pattern, enabled) ==
    /\ LET args == [NoOp EXCEPT !.op = "update_rule", !.index = index, !.label = label,
                        !.pattern = pattern, !.enabled = enabled]
       IN  IF 0 <= index /\ index < Len(config.rules)
           THEN IF pattern # None /\ ~re_compile(TheValue(pattern))
                THEN /\ last' = [args EXCEPT !.ret = FALSE, !.error = "Invalid regex"]
                     /\ UNCHANGED <<config, saved>>
                ELSE LET rule == UpdatedRule(PyIndex(config.rules, index), label, pattern, enabled)
                         cfg == [config EXCEPT !.rules[index + 1] = rule]
                     IN  /\ config' = cfg
                         /\ saved' = save(cfg)
                         /\ last' = [args EXCEPT !.ret = TRUE, !.rule = Some(rule)]
           ELSE /\ last' = [args EXCEPT !.ret = FALSE, !.error = "Invalid index"]
                /\ UNCHANGED <<config, saved>>
    /\ UNCHANGED <<label_enabled, labels, torrent_labels, torrents>>

\* Core.get_rules
get_rules == config.rules

\* the configuration after `for key in config: self.config[key] = config[key]`
Merged(cfg, partial) ==
    [k \in DOMAIN cfg |-> IF k \in DOMAIN partial THEN partial[k] ELSE cfg[k]]

\* Core.set_config
set_config(partial) ==
    /\ LET cfg == Merged(config, partial)
       IN  /\ config' = cfg
           /\ saved' = save(cfg)
    /\ last' = [NoOp EXCEPT !.op = "set_config", !.keys = DOMAIN partial]
    /\ UNCHANGED <<label_enabled, labels, torrent_labels, torrents>>

(***************************************************************************)
(* Environment: the torrent manager, the Label plugin and label.conf       *)
(***************************************************************************)
\* the torrent ids callers pass; those outside DOMAIN torrents are unknown
TorrentIds == {"t1", "t2"}

\* the collaborator call that raises during an operation, if any; the first
\* exception ends the operation, so one choice covers every outcome
Faults == {"none", "get_name", "get_labels", "add", "set_torrent"}

\* one collaborator call: the function, the torrent, the string passed or
\* read, and whether it returned (TRUE) or raised (FALSE)
Call(fn, tid, arg, ok) == [fn |-> fn, tid |-> tid, arg |-> arg, ok |-> ok]

\* what an operation of the evaluator leaves behind
Out(ret, calls, tried, lbls, tl) ==
    [ret |-> ret, calls |-> calls, tried |-> tried, labels |-> lbls, torrent_labels |-> tl]

\* label_plugin.get_labels() returns
get_labels_ok(fault) == fault # "get_labels"

\* label_plugin.add(label_id) returns: the Label plugin raises on an empty
\* name and on a name it already has
add_ok(label_id, lbls, fault) == fault # "add" /\ label_id # EMPTY /\ label_id \notin lbls

\* label_plugin.set_torrent(torrent_id, label_id) returns: the Label plugin
\* raises on an unknown torrent and on a non-empty label it does not have
set_torrent_ok(torrent_id, label_id, lbls, fault) ==
    /\ fault # "set_torrent"
    /\ torrent_id \in DOMAIN torrents
    /\ label_id = EMPTY \/ label_id \in lbls

\* Core._get_label_plugin: the plugin when 'Label' is enabled, else None
_get_label_plugin == label_enabled

\* Core._get_torrent_name
_get_torrent_name(torrent_id, fault) ==
    IF fault # "get_name" /\ torrent_id \in DOMAIN torrents THEN torrents[torrent_id] ELSE EMPTY

\* a lookup that never finds a label
_get_torrent_label_none(torrent_id, tl) == EMPTY

\* Core._get_torrent_label: label_config['torrent_labels'].get(torrent_id, '').
\* label.conf is the configuration object the Label plugin writes, so the read
\* returns what set_torrent stored; a torrent without an entry, and a file
\* without the key, read as ''. The read itself is taken not to raise.
_get_torrent_label(torrent_id, tl) == tl[torrent_id]

\* an exact, case-sensitive membership test
NeedsCreateExact(label_id, existing_labels) == lower(label_id) \notin existing_labels

\* core.py:134: label_id.lower() not in [l.lower() for l in existing_labels]
NeedsCreate(label_id, existing_labels) ==
    lower(label_id) \notin {lower(l) : l \in existing_labels}

\* core.py:144-147: set the torrent's label and return True, or raise
SetStep(torrent_id, low, calls, lbls, tl, fault) ==
    IF set_torrent_ok(torrent_id, low, lbls, fault)
    THEN Out(TRUE, calls \o <<Call("set_torrent", torrent_id, low, TRUE)>>, <<>>, lbls,
             [tl EXCEPT ![torrent_id] = low])
    ELSE Out(FALSE, calls \o <<Call("set_torrent", torrent_id, low, FALSE)>>, <<>>, lbls, tl)

\* after a failed add, go on to set_torrent all the same
AddStepContinue(torrent_id, low, calls, lbls, tl, fault) ==
    IF add_ok(low, lbls, fault)
    THEN SetStep(torrent_id, low, calls \o <<Call("add", "", low, TRUE)>>, lbls \cup {low}, tl, fault)
    ELSE SetStep(torrent_id, low, calls \o <<Call("add", "", low, FALSE)>>, lbls, tl, fault)

\* core.py:135-141: create the label; a failure returns False
AddStep(torrent_id, low, calls, lbls, tl, fault) ==
    IF add_ok(low, lbls, fault)
    THEN SetStep(torrent_id, low, calls \o <<Call("add", "", low, TRUE)>>, lbls \cup {low}, tl, fault)
    ELSE Out(FALSE, calls \o <<Call("add", "", low, FALSE)>>, <<>>, lbls, tl)

\* Core._set_torrent_label
_set_torrent_label(torrent_id, label_id, lbls, tl, fault) ==
    IF ~_get_label_plugin
    THEN Out(FALSE, <<>>, <<>>, lbls, tl)
    ELSE IF ~get_labels_ok(fault)
    THEN Out(FALSE, <<Call("get_labels", "", EMPTY, FALSE)>>, <<>>, lbls, tl)
    ELSE IF NeedsCreate(label_id, lbls)
    THEN AddStep(torrent_id, lower(label_id), <<Call("get_labels", "", EMPTY, TRUE)>>, lbls, tl, fault)
    ELSE SetStep(torrent_id, lower(label_id), <<Call("get_labels", "", EMPTY, TRUE)>>, lbls, tl, fault)

\* the last enabled matching rule wins instead of the first
RECURSIVE RuleLoopLast(_, _, _, _)
RuleLoopLast(rules, i, torrent_name, case_insensitive) ==
    IF i > Len(rules) THEN [hit |-> 0, tried |-> <<>>]
    ELSE LET r == RuleLoopLast(rules, i + 1, torrent_name, case_insensitive)
             usable == rules[i].enabled /\ rules[i].pattern # EMPTY /\ rules[i].label # EMPTY
         IN  IF ~usable THEN r
             ELSE IF r.hit = 0 /\ _match_pattern(torrent_name, rules[i].pattern, case_insensitive)
             THEN [hit |-> i, tried |-> <<i>> \o r.tried]
             ELSE [hit |-> r.hit, tried |-> <<i>> \o r.tried]

\* the loop ended by a pattern that does not compile, as if re.error left it
RECURSIVE RuleLoopRaising(_, _, _, _)
RuleLoopRaising(rules, i, torrent_name, case_insensitive) ==
    IF i > Len(rules) THEN [hit |-> 0, tried |-> <<>>]
    ELSE IF ~rules[i].enabled THEN RuleLoopRaising(rules, i + 1, torrent_name, case_insensitive)
    ELSE IF rules[i].pattern = EMPTY \/ rules[i].label = EMPTY
    THEN RuleLoopRaising(rules, i + 1, torrent_name, case_insensitive)
    ELSE IF ~re_compile(rules[i].pattern) THEN [hit |-> 0, tried |-> <<i>>]
    ELSE IF _match_pattern(torrent_name, rules[i].pattern, case_insensitive)
    THEN [hit |-> i, tried |-> <<i>>]
    ELSE LET r == RuleLoopRaising(rules, i + 1, torrent_name, case_insensitive)
         IN  [hit |-> r.hit, tried |-> <<i>> \o r.tried]

\* the loop of core.py:191-206 from rule i on: the index of the rule that
\* matched (0 if none) and the rules handed to _match_pattern, in order
RECURSIVE RuleLoop(_, _, _, _)
RuleLoop(rules, i, torrent_name, case_insensitive) ==
    IF i > Len(rules) THEN [hit |-> 0, tried |-> <<>>]
    ELSE IF ~rules[i].enabled THEN RuleLoop(rules, i + 1, torrent_name, case_insensitive)
    ELSE IF rules[i].pattern = EMPTY \/ rules[i].label = EMPTY
    THEN RuleLoop(rules, i + 1, torrent_name, case_insensitive)
    ELSE IF _match_pattern(torrent_name, rules[i].pattern, case_insensitive)
    THEN [hit |-> i, tried |-> <<i>>]
    ELSE LET r == RuleLoop(rules, i + 1, torrent_name, case_insensitive)
         IN  [hit |-> r.hit, tried |-> <<i>> \o r.tried]

\* core.py:190-206: walk the rules and assign the label of the first match
EvaluateRules(torrent_id, torrent_name, calls, lbls, tl, fault) ==
    LET r == RuleLoop(config.rules, 1, torrent_name, config.case_insensitive)
    IN  IF r.hit = 0
        THEN Out(FALSE, calls, r.tried, lbls, tl)
        ELSE LET label == config.rules[r.hit].label
                 a == _set_torrent_label(torrent_id, label, lbls, tl, fault)
             IN  Out(a.ret,
                     calls \o <<Call("_set_torrent_label", torrent_id, label, a.ret)>> \o a.calls,
                     r.tried, a.labels, a.torrent_labels)

\* the skip test of core.py:183-188 left out
SkipNever(torrent_id, tl) == FALSE

\* core.py:183-188: the torrent is skipped as already labelled
Skipped(torrent_id, tl) == config.skip_if_labeled /\ _get_torrent_label(torrent_id, tl) # EMPTY

\* the name test of core.py:177-180 left out
UnnamedNever(torrent_name) == FALSE

\* core.py:177: `not torrent_name`
Unnamed(torrent_name) == torrent_name = EMPTY

\* Core._apply_rules_to_torrent, with the Label plugin holding the labels
\* lbls and the torrent labels tl when it is called
_apply_rules_to_torrent(torrent_id, lbls, tl, fault) ==
    LET torrent_name == _get_torrent_name(torrent_id, fault)
        c0 == <<Call("get_name", torrent_id, torrent_name, fault # "get_name")>>
        c1 == IF config.skip_if_labeled
              THEN c0 \o <<Call("get_label", torrent_id, _get_torrent_label(torrent_id, tl), TRUE)>>
              ELSE c0
    IN  IF Unnamed(torrent_name) THEN Out(FALSE, c0, <<>>, lbls, tl)
        ELSE IF Skipped(torrent_id, tl) THEN Out(FALSE, c1, <<>>, lbls, tl)
        ELSE EvaluateRules(torrent_id, torrent_name, c1, lbls, tl, fault)

\* the handler without its from_state test
_on_torrent_added_replayed(torrent_id, from_state, fault) ==
    IF ~config.apply_on_add THEN Out(FALSE, <<>>, <<>>, labels, torrent_labels)
    ELSE _apply_rules_to_torrent(torrent_id, labels, torrent_labels, fault)

\* Core._on_torrent_added
_on_torrent_added(torrent_id, from_state, fault) ==
    IF from_state THEN Out(FALSE, <<>>, <<>>, labels, torrent_labels)
    ELSE IF ~config.apply_on_add THEN Out(FALSE, <<>>, <<>>, labels, torrent_labels)
    ELSE _apply_rules_to_torrent(torrent_id, labels, torrent_labels, fault)

\* an evaluator operation takes effect: the label store changes as the
\* operation left it and the operation is recorded
Effect(op, torrent_id, label, from_state, out) ==
    /\ labels' = out.labels
    /\ torrent_labels' = out.torrent_labels
    /\ last' = [NoOp EXCEPT !.op = op, !.tid = torrent_id, !.label = label,
                    !.from_state = from_state, !.ret = out.ret, !.calls = out.calls,
                    !.tried = out.tried, !.pre_label = torrent_labels[torrent_id],
                    !.pre_labels = labels,
                    !.follows = /\ op = "apply_rules_to_torrent"
                                /\ last.op = "apply_rules_to_torrent"
                                /\ last.tid = torrent_id
                                /\ last.ret]
    /\ UNCHANGED <<config, saved, label_enabled, torrents>>

\* Core.apply_rules_to_torrent
apply_rules_to_torrent(torrent_id, fault) ==
    Effect("apply_rules_to_torrent", torrent_id, None, FALSE,
           _apply_rules_to_torrent(torrent_id, labels, torrent_labels, fault))

\* Core.set_torrent_label
set_torrent_label(torrent_id, label, fault) ==
    Effect("set_torrent_label", torrent_id, Some(label), FALSE,
           _set_torrent_label(torrent_id, label, labels, torrent_labels, fault))

\* core.py:310-311: the count and the record of the batch after torrent_id
\* was handed to _apply_rules_to_torrent, which left out
Counted(acc, torrent_id, out) ==
    [count |-> IF out.ret THEN acc.count + 1 ELSE acc.count,
     calls |-> acc.calls \o out.calls,
     batch |-> Append(acc.batch, [tid |-> torrent_id, ret |-> out.ret]),
     labels |-> out.labels, torrent_labels |-> out.torrent_labels]

\* the batch given up at the first torrent that is not labelled
RECURSIVE AllLoopStopping(_, _, _, _)
AllLoopStopping(order, i, faults, acc) ==
    IF i > Len(order) THEN acc
    ELSE LET out == _apply_rules_to_torrent(order[i], acc.labels, acc.torrent_labels, faults[order[i]])
         IN  IF out.ret
             THEN AllLoopStopping(order, i + 1, faults, Counted(acc, order[i], out))
             ELSE Counted(acc, order[i], out)

\* the loop of core.py:309-311 from the i-th torrent on: each torrent is
\* handed to _apply_rules_to_torrent with the labels the torrents before it
\* left, and counted when that returns True
RECURSIVE AllLoop(_, _, _, _)
AllLoop(order, i, faults, acc) ==
    IF i > Len(order) THEN acc
    ELSE LET out == _apply_rules_to_torrent(order[i], acc.labels, acc.torrent_labels, faults[order[i]])
         IN  AllLoop(order, i + 1, faults, Counted(acc, order[i], out))

\* the orders in which a dictionary with the keys S can be iterated
Orders(S) == {o \in [1..Cardinality(S) -> S] : \A a, b \in DOMAIN o : a # b => o[a] # o[b]}

\* Core.apply_rules_to_all: order is the iteration order of
\* torrent_manager.torrents, faults the collaborator call that raises while
\* each torrent is processed
apply_rules_to_all(order, faults) ==
    \E r \in {AllLoop(order, 1, faults,
                      [count |-> 0, calls |-> <<>>, batch |-> <<>>,
                       labels |-> labels, torrent_labels |-> torrent_labels])} :
        /\ labels' = r.labels
        /\ torrent_labels' = r.torrent_labels
        /\ last' = [NoOp EXCEPT !.op = "apply_rules_to_all", !.ret = TRUE,
                        !.labeled_count = r.count, !.calls = r.calls,
                        !.batch = r.batch, !.pre_labels = labels]
        /\ UNCHANGED <<config, saved, label_enabled, torrents>>

\* the event manager delivers TorrentAddedEvent(torrent_id, from_state)
TorrentAddedEvent(torrent_id, from_state, fault) ==
    Effect("TorrentAddedEvent", torrent_id, None, from_state,
           _on_torrent_added(torrent_id, from_state, fault))

(***************************************************************************)
(* GTK preferences page                                                    *)
(***************************************************************************)
\* the preferences page is not shown and no call is under way
UiClosed ==
    /\ rules_liststore = <<>>
    /\ requests = <<>>
    /\ responses = <<>>

\* on_show_prefs: the rows of the list store after the rules were loaded;
\* id stands for the row a tree iter points to
LoadedRows(rules) ==
    [k \in DOMAIN rules |->
        [id |-> k, enabled |-> rules[k].enabled, label |-> rules[k].label,
         pattern |-> rules[k].pattern]]

\* the calls sent and not yet answered, and answered with the callback not
\* yet run
InFlight == Len(requests) + Len(responses)

\* the rows that tree iters held by the page or by a callback point to
UsedIds ==
    {rules_liststore[k].id : k \in DOMAIN rules_liststore}
        \cup {requests[k].tree_iter : k \in DOMAIN requests}
        \cup {responses[k].tree_iter : k \in DOMAIN responses}

\* the row a list store append creates
FreshId == CHOOSE n \in 1..(Cardinality(UsedIds) + 1) : n \notin UsedIds

\* a call of the client on the core with the closure of its callback
Request(method, handler, index, tree_iter, rule) ==
    [method |-> method, handler |-> handler, index |-> index, tree_iter |-> tree_iter,
     rule |-> rule, success |-> FALSE]

\* the list without its k-th element
RemoveAt(seq, k) == SubSeq(seq, 1, k - 1) \o SubSeq(seq, k + 1, Len(seq))

\* GtkUI._on_remove_rule with row r selected: the index is read from the
\* row's path now, the iter is kept for the callback
_on_remove_rule(r) ==
    /\ r \in DOMAIN rules_liststore
    /\ InFlight < MaxInFlight
    /\ requests' = Append(requests, Request("remove_rule", "_on_remove_rule", r - 1,
                                            rules_liststore[r].id, None))
    /\ UNCHANGED <<rules_liststore, responses>>
    /\ UNCHANGED core_vars

\* GtkUI._on_edit_rule with row r selected: the entry fields take the row's
\* values and the rule is removed as in _on_remove_rule
_on_edit_rule(r) ==
    /\ r \in DOMAIN rules_liststore
    /\ InFlight < MaxInFlight
    /\ requests' = Append(requests, Request("remove_rule", "_on_edit_rule", r - 1,
                                            rules_liststore[r].id, None))
    /\ UNCHANGED <<rules_liststore, responses>>
    /\ UNCHANGED core_vars

\* the add_rule calls under way
PendingAdds ==
    Cardinality({k \in DOMAIN requests : requests[k].method = "add_rule"})
        + Cardinality({k \in DOMAIN responses : responses[k].method = "add_rule"})

\* GtkUI._on_add_rule with the entry fields holding label, pattern and
\* enabled, typed or left by _on_edit_rule
_on_add_rule(label, pattern, enabled) ==
    /\ label # EMPTY /\ pattern # EMPTY
    /\ InFlight < MaxInFlight
    /\ Len(rules_liststore) + PendingAdds < MaxRules
    /\ requests' = Append(requests,
                          Request("add_rule", "_on_add_rule", 0, 0,
                                  Some([label |-> label, pattern |-> pattern, enabled |-> enabled])))
    /\ UNCHANGED <<rules_liststore, responses>>
    /\ UNCHANGED core_vars

\* the core takes the oldest call, runs it and sends its result back
CoreHandles ==
    /\ requests # <<>>
    /\ LET req == Head(requests)
       IN  /\ IF req.method = "remove_rule"
              THEN remove_rule(req.index)
              ELSE add_rule(TheValue(req.rule).label, TheValue(req.rule).pattern,
                            TheValue(req.rule).enabled)
           /\ requests' = Tail(requests)
           /\ responses' = Append(responses, [req EXCEPT !.success = last'.ret])
    /\ UNCHANGED rules_liststore

\* model.remove(tree_iter): the row the iter points to leaves the list. An
\* iter whose row is gone is invalid; what GTK does with it is not defined,
\* the list stays as it is or loses some row
model_remove(tree_iter) ==
    IF \E k \in DOMAIN rules_liststore : rules_liststore[k].id = tree_iter
    THEN LET k == CHOOSE j \in DOMAIN rules_liststore : rules_liststore[j].id = tree_iter
         IN  rules_liststore' = RemoveAt(rules_liststore, k)
    ELSE rules_liststore' \in
             {rules_liststore} \cup {RemoveAt(rules_liststore, k) : k \in DOMAIN rules_liststore}

\* on_remove_result of _on_remove_rule and of _on_edit_rule
on_remove_result(result) ==
    IF result.success THEN model_remove(result.tree_iter) ELSE UNCHANGED rules_liststore

\* on_add_result
on_add_result(result) ==
    IF result.success
    THEN rules_liststore' = Append(rules_liststore,
                                   [id |-> FreshId, enabled |-> TheValue(result.rule).enabled,
                                    label |-> TheValue(result.rule).label,
                                    pattern |-> TheValue(result.rule).pattern])
    ELSE UNCHANGED rules_liststore

\* the oldest result arrives and its callback runs
Callback ==
    /\ responses # <<>>
    /\ responses' = Tail(responses)
    /\ IF Head(responses).method = "remove_rule"
       THEN on_remove_result(Head(responses))
       ELSE on_add_result(Head(responses))
    /\ UNCHANGED requests
    /\ UNCHANGED core_vars

(***************************************************************************)
(* Specifications                                                          *)
(***************************************************************************)
\* the rules the evaluator may find stored: two that match the name "Ab"
\* (the first only when case is ignored) under each label, and one rule for
\* each way the loop passes a rule over
EvalLabels == RuleLabels \cup {EMPTY}
EvalRules ==
    [label : RuleLabels, pattern : GoodPatterns, enabled : {TRUE}]
    \cup {[label |-> <<"b">>, pattern |-> <<"a", "|", "b">>, enabled |-> FALSE],
          [label |-> EMPTY, pattern |-> <<"a", "|", "b">>, enabled |-> TRUE],
          [label |-> <<"b">>, pattern |-> EMPTY, enabled |-> TRUE],
          [label |-> <<"b">>, pattern |-> <<"[">>, enabled |-> TRUE]}

\* the sequences over S of length at most n
SeqsUpTo(S, n) == UNION {[1..k -> S] : k \in 0..n}

\* the partial maps set_config is given
OptionMaps ==
    {[apply_on_add |-> FALSE], [apply_on_add |-> TRUE],
     [skip_if_labeled |-> FALSE, case_insensitive |-> FALSE],
     [skip_if_labeled |-> TRUE, case_insensitive |-> TRUE]}
StoreMaps ==
    {[apply_on_add |-> FALSE, skip_if_labeled |-> FALSE],
     [rules |-> <<>>],
     [rules |-> <<[label |-> <<"A">>, pattern |-> <<"[">>, enabled |-> TRUE]>>]}

\* the plugin after enable(): the configuration is loaded with its defaults
Init ==
    /\ config = DEFAULT_PREFS
    /\ saved = DEFAULT_PREFS
    /\ label_enabled = TRUE
    /\ labels = {}
    /\ torrent_labels = [t \in TorrentIds |-> EMPTY]
    /\ torrents = [t \in {"t1"} |-> <<"A", "b">>]
    /\ last = NoOp
    /\ UiClosed

\* the rule store's operations
Next ==
    \/ \E label \in RuleLabels, pattern \in Patterns, enabled \in BOOLEAN :
           add_rule(label, pattern, enabled) /\ UNCHANGED ui_vars
    \/ \E index \in -1..MaxRules : remove_rule(index) /\ UNCHANGED ui_vars
    \/ \E index \in -1..MaxRules, label \in UpdateLabels, pattern \in Opt(Patterns), enabled \in UpdateEnabled :
           update_rule(index, label, pattern, enabled) /\ UNCHANGED ui_vars
    \/ \E partial \in StoreMaps : set_config(partial) /\ UNCHANGED ui_vars

Spec == Init /\ [][Next]_vars

\* the evaluator at work on a stored configuration: any rule list and any
\* options, the Label plugin enabled or not
InitEval ==
    /\ config \in [rules : SeqsUpTo(EvalRules, MaxRules), apply_on_add : BOOLEAN,
                   skip_if_labeled : BOOLEAN, case_insensitive : BOOLEAN]
    /\ saved = config
    /\ label_enabled \in BOOLEAN
    /\ labels = {}
    /\ torrent_labels = [t \in TorrentIds |-> EMPTY]
    /\ torrents = [t \in {"t1"} |-> <<"A", "b">>]
    /\ last = NoOp
    /\ UiClosed

NextEval ==
    \/ \E torrent_id \in TorrentIds, fault \in Faults :
           apply_rules_to_torrent(torrent_id, fault) /\ UNCHANGED ui_vars
    \/ \E torrent_id \in TorrentIds, from_state \in BOOLEAN, fault \in Faults :
           TorrentAddedEvent(torrent_id, from_state, fault) /\ UNCHANGED ui_vars
    \/ \E partial \in OptionMaps : set_config(partial) /\ UNCHANGED ui_vars

SpecEval == InitEval /\ [][NextEval]_vars

\* the Label plugin is enabled or disabled in the host's preferences
LabelPluginToggled ==
    /\ label_enabled' = ~label_enabled
    /\ last' = [NoOp EXCEPT !.op = "LabelPluginToggled"]
    /\ UNCHANGED <<config, saved, labels, torrent_labels, torrents>>

\* label assignment on its own: the Label plugin holds no label, or one
\* whose name is not in lower case
InitAssign ==
    /\ config = DEFAULT_PREFS
    /\ saved = DEFAULT_PREFS
    /\ label_enabled \in BOOLEAN
    /\ labels \in {{}, {<<"A">>}, {<<"b">>}}
    /\ torrent_labels = [t \in TorrentIds |-> EMPTY]
    /\ torrents = [t \in {"t1"} |-> <<"A", "b">>]
    /\ last = NoOp
    /\ UiClosed

NextAssign ==
    \/ \E torrent_id \in TorrentIds, label \in EvalLabels \cup {<<"a">>}, fault \in Faults :
           set_torrent_label(torrent_id, label, fault) /\ UNCHANGED ui_vars
    \/ LabelPluginToggled /\ UNCHANGED ui_vars

SpecAssign == InitAssign /\ [][NextAssign]_vars

\* the rules of a session with several torrents: the first matches the name
\* "Ab" when case is ignored, the second every name
AllRules ==
    {[label |-> <<"A">>, pattern |-> <<"a">>, enabled |-> TRUE],
     [label |-> <<"b">>, pattern |-> <<"a", "|", "b">>, enabled |-> TRUE]}

\* the torrent manager's torrents: any of the ids, each with a name or with
\* an empty one; the ids left out are unknown to it
SessionTorrents ==
    UNION {[D -> {<<"A", "b">>, EMPTY}] : D \in SUBSET TorrentIds}

\* the manual operations on a session with any torrents, the Label plugin
\* enabled
InitAll ==
    /\ config \in [rules : SeqsUpTo(AllRules, MaxRules), apply_on_add : {FALSE},
                   skip_if_labeled : BOOLEAN, case_insensitive : BOOLEAN]
    /\ saved = config
    /\ label_enabled = TRUE
    /\ labels = {}
    /\ torrent_labels = [t \in TorrentIds |-> EMPTY]
    /\ torrents \in SessionTorrents
    /\ last = NoOp
    /\ UiClosed

NextAll ==
    \/ \E order \in Orders(DOMAIN torrents), faults \in [DOMAIN torrents -> Faults] :
           apply_rules_to_all(order, faults) /\ UNCHANGED ui_vars
    \/ \E torrent_id \in TorrentIds, fault \in Faults :
           apply_rules_to_torrent(torrent_id, fault) /\ UNCHANGED ui_vars

SpecAll == InitAll /\ [][NextAll]_vars

\* the rules stored when the preferences page is opened
UiRules ==
    {[label |-> <<"A">>, pattern |-> <<"a">>, enabled |-> TRUE],
     [label |-> <<"b">>, pattern |-> <<"a", "|", "b">>, enabled |-> FALSE]}

\* the preferences page after on_show_prefs loaded the stored rules: the
\* list store and the core's rule list are equal and no call is under way
InitUi ==
    /\ config \in [rules : SeqsUpTo(UiRules, MaxRows), apply_on_add : {TRUE},
                   skip_if_labeled : {TRUE}, case_insensitive : {TRUE}]
    /\ saved = config
    /\ label_enabled = TRUE
    /\ labels = {}
    /\ torrent_labels = [t \in TorrentIds |-> EMPTY]
    /\ torrents = [t \in {"t1"} |-> <<"A", "b">>]
    /\ last = NoOp
    /\ rules_liststore = LoadedRows(config.rules)
    /\ requests = <<>>
    /\ responses = <<>>

\* the user's clicks, the core at work on the calls and the callbacks
NextUi ==
    \/ \E r \in 1..MaxRows : _on_remove_rule(r)
    \/ \E r \in 1..MaxRows : _on_edit_rule(r)
    \/ \E label \in RuleLabels, pattern \in Patterns, enabled \in BOOLEAN :
           _on_add_rule(label, pattern, enabled)
    \/ CoreHandles
    \/ Callback

SpecUi == InitUi /\ [][NextUi]_vars

(***************************************************************************)
(* Properties                                                              *)
(***************************************************************************)
\* the positions in the last operation's call log of the calls of fn
CallsOf(fn) == {k \in DOMAIN last.calls : last.calls[k].fn = fn}

\* the name the torrent manager gave the last operation ("" if it gave none)
ResolvedName ==
    IF CallsOf("get_name") = {} THEN EMPTY ELSE last.calls[1].arg

\* rule i of the stored list is one the specification lets match the name:
\* enabled, with a label and a pattern, its pattern found in the name
Eligible(i, name) ==
    /\ config.rules[i].enabled
    /\ config.rules[i].label # EMPTY
    /\ config.rules[i].pattern # EMPTY
    /\ config.rules[i].pattern \notin BadPatterns
    /\ re_search(config.rules[i].pattern, name, config.case_insensitive)

EligibleRules(name) == {i \in 1..Len(config.rules) : Eligible(i, name)}

\* the last operation was apply_rules_to_torrent on a torrent with a name
\* that was not passed over as already labelled
Evaluated ==
    /\ last.op = "apply_rules_to_torrent"
    /\ ResolvedName # EMPTY
    /\ ~(config.skip_if_labeled /\ last.pre_label # EMPTY)

\* C1: first match wins. An apply_rules_to_torrent that evaluates the rules
\* makes at most one label assignment; it is for the label of the lowest
\* eligible rule, the call returns True exactly when that assignment set the
\* label, and no rule after that one is handed to the matcher. With no
\* eligible rule there is no assignment and the call returns False.
C1_FirstMatchWins ==
    Evaluated =>
        LET M == EligibleRules(ResolvedName)
            A == CallsOf("_set_torrent_label")
        IN  /\ Cardinality(A) <= 1
            /\ M = {} => A = {} /\ ~last.ret
            /\ M # {} =>
                   LET f == CHOOSE i \in M : \A j \in M : i <= j
                   IN  /\ Cardinality(A) = 1
                       /\ \A k \in A : /\ last.calls[k].arg = config.rules[f].label
                                       /\ last.calls[k].tid = last.tid
                                       /\ last.calls[k].ok = last.ret
                       /\ last.ret <=> \E k \in CallsOf("set_torrent") : last.calls[k].ok
                       /\ \A k \in CallsOf("set_torrent") \cup CallsOf("add") :
                              IgnoreCase(last.calls[k].arg) = IgnoreCase(config.rules[f].label)
                       /\ \A k \in DOMAIN last.tried : last.tried[k] <= f

\* C1 witness: the first eligible rule's assignment failed, a later rule with
\* another label is eligible too, and the call returned False
C1_Witness ==
    /\ Evaluated
    /\ ~last.ret
    /\ CallsOf("_set_torrent_label") # {}
    /\ \E i, j \in EligibleRules(ResolvedName) :
           i < j /\ config.rules[i].label # config.rules[j].label

\* the last operation made no call that creates or sets a label
NoLabelWritten ==
    CallsOf("add") \cup CallsOf("set_torrent") \cup CallsOf("_set_torrent_label") = {}

\* the label store is as the last operation found it
LabelsUntouched ==
    /\ labels = last.pre_labels
    /\ torrent_labels[last.tid] = last.pre_label

C4_NoEvaluationOnReplay ==
    (/\ last.op = "TorrentAddedEvent"
     /\ (last.from_state \/ ~config.apply_on_add))
        => last.calls = <<>> /\ last.tried = <<>> /\ ~last.ret /\ LabelsUntouched

\* C4 witness: a replayed notification, with apply_on_add on, for an
\* unlabelled torrent that an eligible rule would have labelled
C4_Witness ==
    /\ last.op = "TorrentAddedEvent"
    /\ last.from_state
    /\ config.apply_on_add
    /\ label_enabled
    /\ last.tid \in DOMAIN torrents
    /\ last.pre_label = EMPTY
    /\ EligibleRules(torrents[last.tid]) # {}

\* the label the last set_torrent_label was asked to assign
Requested == TheValue(last.label)

\* some call of the last operation raised
SomeCallFailed == \E k \in DOMAIN last.calls : ~last.calls[k].ok

\* C5: set_torrent_label(torrent_id, "") on a labelled torrent, with the
\* Label plugin enabled and no call failing but the refused creation of a
\* label named "", hands set_torrent(torrent_id, "") to the Label plugin and
\* returns True.
C5_ClearLabel ==
    (/\ last.op = "set_torrent_label"
     /\ Requested = EMPTY
     /\ label_enabled
     /\ last.tid \in DOMAIN torrents
     /\ last.pre_label # EMPTY
     /\ \A k \in DOMAIN last.calls : last.calls[k].ok \/ last.calls[k].fn = "add")
        => /\ last.ret
           /\ \E k \in CallsOf("set_torrent") :
                  last.calls[k].tid = last.tid /\ last.calls[k].arg = EMPTY

\* x and y are equal when case is ignored
SameIgnoringCase(x, y) == IgnoreCase(x) = IgnoreCase(y)

\* C6: a label assignment that got the Label plugin's label list calls add
\* exactly when no listed label equals the requested one ignoring case, at
\* most once and with the lower-cased label, and passes the lower-cased label
\* to every set_torrent.
C6_CreateWhenAbsent ==
    (/\ last.op = "set_torrent_label"
     /\ \E k \in CallsOf("get_labels") : last.calls[k].ok)
        => /\ CallsOf("add") # {} <=>
                  \A l \in last.pre_labels : ~SameIgnoringCase(l, Requested)
           /\ Cardinality(CallsOf("add")) <= 1
           /\ \A k \in CallsOf("add") \cup CallsOf("set_torrent") :
                  last.calls[k].arg = IgnoreCase(Requested)
           /\ \A k \in CallsOf("set_torrent") : last.calls[k].tid = last.tid

\* C6 witness: the requested label is listed only in another case, so that
\* no add is made and set_torrent is given a name the list does not hold
C6_Witness ==
    /\ last.op = "set_torrent_label"
    /\ CallsOf("add") = {}
    /\ CallsOf("set_torrent") # {}
    /\ IgnoreCase(Requested) \notin last.pre_labels
    /\ Requested # IgnoreCase(Requested)

\* C7: a label assignment returns False when the Label plugin is not
\* enabled and when any of its calls raises; when add raises, set_torrent is
\* not called and the torrent's label stays as it was.
C7_FailureGivesFalse ==
    last.op = "set_torrent_label" =>
        /\ ~label_enabled => ~last.ret /\ last.calls = <<>> /\ LabelsUntouched
        /\ SomeCallFailed => ~last.ret
        /\ (\E k \in CallsOf("add") : ~last.calls[k].ok) =>
               CallsOf("set_torrent") = {} /\ LabelsUntouched

\* C7 witness: the creation of a label with a proper, new name raised
C7_Witness ==
    /\ last.op = "set_torrent_label"
    /\ label_enabled
    /\ last.tid \in DOMAIN torrents
    /\ \E k \in CallsOf("add") :
           /\ ~last.calls[k].ok
           /\ last.calls[k].arg # EMPTY
           /\ last.calls[k].arg \notin last.pre_labels

C9_AddRule ==
    [][(last'.op = "add_rule" /\ last'.ret) =>
          LET rule == [label |-> TheValue(last'.label), pattern |-> TheValue(last'.pattern),
                       enabled |-> TheValue(last'.enabled)]
          IN  /\ Len(get_rules') = Len(get_rules) + 1
              /\ \A j \in 1..Len(get_rules) : get_rules'[j] = get_rules[j]
              /\ last'.rule_index = Len(get_rules') - 1
              /\ PyIndex(get_rules', last'.rule_index) = rule]_vars

\* C9 witness: a rule has been added behind a different one
C9_Witness ==
    /\ last.op = "add_rule"
    /\ last.ret
    /\ last.rule_index = 1
    /\ config.rules[1] # config.rules[2]

\* the last operation was given a pattern that does not compile
BadPatternGiven(l) == l.pattern # None /\ TheValue(l.pattern) \in BadPatterns

\* C10: add_rule with a pattern that does not compile, and update_rule with
\* such a pattern at a valid index, whatever label and enabled value come
\* with it, return failure with an error and leave the configuration and the
\* persisted configuration as they were.
C10_BadPatternRejected ==
    [][(/\ BadPatternGiven(last')
        /\ \/ last'.op = "add_rule"
           \/ /\ last'.op = "update_rule"
              /\ 0 <= last'.index
              /\ last'.index < Len(config.rules))
          => /\ ~last'.ret
             /\ last'.error # ""
             /\ config' = config
             /\ saved' = saved]_vars

\* C10 witness: update_rule was refused a bad pattern that came with a new
\* label and a new enabled value for the rule
C10_Witness ==
    /\ last.op = "update_rule"
    /\ BadPatternGiven(last)
    /\ ~last.ret
    /\ last.error = "Invalid regex"
    /\ last.label # None
    /\ last.enabled # None
    /\ PyIndex(config.rules, last.index).label # TheValue(last.label)
    /\ PyIndex(config.rules, last.index).enabled # TheValue(last.enabled)
    /\ saved = config

\* the torrent manager could give the last operation no name for the
\* torrent: the id is unknown, the name is empty, or the lookup raised
Unresolvable ==
    \/ last.tid \notin DOMAIN torrents
    \/ torrents[last.tid] = EMPTY
    \/ \E k \in CallsOf("get_name") : ~last.calls[k].ok

\* C11: apply_rules_to_torrent on a torrent whose name is empty or cannot be
\* resolved returns False, reads no label, hands no rule to the matcher and
\* makes no call on the Label plugin.
C11_NoNameNoLabelCall ==
    (last.op = "apply_rules_to_torrent" /\ Unresolvable)
        => /\ ~last.ret
           /\ last.tried = <<>>
           /\ CallsOf("get_label") \cup CallsOf("get_labels") = {}
           /\ NoLabelWritten
           /\ LabelsUntouched

\* C11 witness: the lookup raised for an unlabelled torrent whose name an
\* eligible rule matches, with skip_if_labeled on and the Label plugin enabled
C11_Witness ==
    /\ last.op = "apply_rules_to_torrent"
    /\ \E k \in CallsOf("get_name") : ~last.calls[k].ok
    /\ last.tid \in DOMAIN torrents
    /\ config.skip_if_labeled
    /\ label_enabled
    /\ EligibleRules(torrents[last.tid]) # {}

\* the operations of the rule store that clients call
StoreOps == {"add_rule", "remove_rule", "update_rule", "set_config"}

\* C12: when add_rule, remove_rule, update_rule or set_config has returned,
\* with success or with an error, the persisted configuration is the
\* in-memory one: the same rules in the same order and the same options.
C12_PersistedIsInMemory ==
    last.op \in StoreOps => saved = config

\* C12 witness: a successful update_rule returned and left a configuration
\* that differs from the defaults in its rules
C12_Witness ==
    /\ last.op = "update_rule"
    /\ last.ret
    /\ config.rules # DEFAULT_PREFS.rules
    /\ saved.rules = config.rules

\* C14: every rule in the stored rule list has a pattern that compiles,
\* whatever sequence of add_rule, update_rule, remove_rule and set_config
\* was called.
C14_StoredPatternsCompile ==
    \A i \in DOMAIN config.rules : re_compile(config.rules[i].pattern)

\* the options of a configuration
Options(cfg) == <<cfg.apply_on_add, cfg.skip_if_labeled, cfg.case_insensitive>>

\* C16: a successful update_rule replaces the supplied fields of the rule at
\* the index and nothing else: an omitted field keeps its value, a supplied
\* enabled=False is applied, the list keeps its length, every other rule and
\* the three options stay as they were. An update_rule that fails changes
\* nothing, and an index out of range fails with "Invalid index".
C16_UpdateFrame ==
    [][last'.op = "update_rule" =>
         LET i == last'.index + 1
             inRange == last'.index >= 0 /\ last'.index < Len(config.rules)
         IN  /\ ~inRange => ~last'.ret /\ last'.error = "Invalid index"
             /\ ~last'.ret => config' = config /\ saved' = saved
             /\ last'.ret =>
                    /\ Len(config'.rules) = Len(config.rules)
                    /\ \A j \in DOMAIN config.rules : j # i => config'.rules[j] = config.rules[j]
                    /\ config'.rules[i].label =
                           IF last'.label = None THEN config.rules[i].label ELSE TheValue(last'.label)
                    /\ config'.rules[i].pattern =
                           IF last'.pattern = None THEN config.rules[i].pattern ELSE TheValue(last'.pattern)
                    /\ config'.rules[i].enabled =
                           IF last'.enabled = None THEN config.rules[i].enabled ELSE TheValue(last'.enabled)
                    /\ Options(config') = Options(config)]_vars

\* C16 witness: update_rule(1, enabled=False) succeeded on a list of two
\* rules, with the label and the pattern omitted
C16_Witness ==
    /\ last.op = "update_rule"
    /\ last.ret
    /\ last.index = 1
    /\ last.label = None
    /\ last.pattern = None
    /\ last.enabled = Some(FALSE)
    /\ Len(config.rules) = 2
    /\ ~config.rules[2].enabled
    /\ config.rules[1].enabled

\* rule i of the stored list reaches the matcher with a pattern that does
\* not compile: it is enabled and has a label
Uncompilable(i) ==
    /\ config.rules[i].enabled
    /\ config.rules[i].label # EMPTY
    /\ config.rules[i].pattern \in BadPatterns

\* C17: a stored rule whose pattern does not compile is a non-match that
\* does not end the evaluation. When such a rule stands before every
\* eligible rule, apply_rules_to_torrent hands it to the matcher, goes on to
\* the rules after it, and assigns the label of the first eligible rule,
\* which it reached; with no eligible rule it reaches the end of the list,
\* assigns nothing and returns False.
C17_BadPatternIsNonMatch ==
    Evaluated =>
        LET M == EligibleRules(ResolvedName)
            T == {last.tried[k] : k \in DOMAIN last.tried}
        IN  \A b \in 1..Len(config.rules) :
                (Uncompilable(b) /\ \A j \in M : b < j) =>
                    /\ b \in T
                    /\ \A i \in (b + 1)..Len(config.rules) :
                           (Uncompilable(i) /\ \A j \in M : i < j) => i \in T
                    /\ M = {} => ~last.ret /\ NoLabelWritten
                    /\ M # {} =>
                           LET f == CHOOSE i \in M : \A j \in M : i <= j
                           IN  /\ f \in T
                               /\ \E k \in CallsOf("_set_torrent_label") :
                                      last.calls[k].arg = config.rules[f].label
                               /\ last.ret => torrent_labels[last.tid] = lower(config.rules[f].label)

\* C17 witness: the first stored rule has a pattern that does not compile,
\* the second matched, and the torrent carries the second rule's label
C17_Witness ==
    /\ Evaluated
    /\ last.ret
    /\ Len(config.rules) = 2
    /\ Uncompilable(1)
    /\ last.tried = <<1, 2>>
    /\ config.rules[2].label # config.rules[1].label
    /\ torrent_labels[last.tid] = lower(config.rules[2].label)

\* C13: apply_rules_to_all hands every torrent of the torrent manager to
\* the per-torrent procedure exactly once, whatever became of the torrents
\* before it, and returns success with labeled_count the number of torrents
\* for which the procedure returned True, which are the torrents whose label
\* was set.
C13_BatchCountsEveryTorrent ==
    last.op = "apply_rules_to_all" =>
        /\ last.ret
        /\ Len(last.batch) = Cardinality(DOMAIN torrents)
        /\ \A t \in DOMAIN torrents :
               /\ Cardinality({k \in DOMAIN last.batch : last.batch[k].tid = t}) = 1
               /\ Cardinality({k \in CallsOf("get_name") : last.calls[k].tid = t}) = 1
        /\ last.labeled_count = Cardinality({k \in DOMAIN last.batch : last.batch[k].ret})
        /\ \A k \in DOMAIN last.batch :
               last.batch[k].ret <=>
                   \E c \in CallsOf("set_torrent") :
                       last.calls[c].tid = last.batch[k].tid /\ last.calls[c].ok

\* C13 witness: of two torrents the first was not labelled because
\* set_torrent raised, the second was, and the count is 1
C13_Witness ==
    /\ last.op = "apply_rules_to_all"
    /\ Len(last.batch) = 2
    /\ ~last.batch[1].ret
    /\ \E c \in CallsOf("set_torrent") :
           last.calls[c].tid = last.batch[1].tid /\ ~last.calls[c].ok
    /\ last.batch[2].ret
    /\ last.labeled_count = 1

\* the rules the list store shows, in its order
ShownRules ==
    [k \in DOMAIN rules_liststore |->
        [label |-> rules_liststore[k].label, pattern |-> rules_liststore[k].pattern,
         enabled |-> rules_liststore[k].enabled]]

\* C15: once no call of the preferences page is under way, its list store
\* shows the rules of the core's rule list in the same order, whatever
\* adds, removes and edits were clicked and whenever their callbacks ran.
C15_QuiescentConsistency ==
    (requests = <<>> /\ responses = <<>>) => ShownRules = config.rules

====
